---- MODULE Spec2Model ----
(***************************************************************************)
(* Model of the symlink lifecycle of paw: createSymlinks / removeSymlinks  *)
(* (src/core/symlinks.ts), the backup store and rollback                    *)
(* (src/core/backup.ts), the conflict prompt (src/core/prompt.ts) and the  *)
(* command wrappers of src/index.ts.                                       *)
(***************************************************************************)
EXTENDS Integers, Sequences, FiniteSets, TLC

(***************************************************************************)
(* Bounds of the model.                                                    *)
(***************************************************************************)
\* number of commands issued in one behaviour
MaxCmds == 2
\* length of a hostname pattern
MaxPattern == 3
\* length of the configured symlink list
MaxSpecs == 2
\* backups of one file on either side of the age threshold
MaxStamp == 2

(***************************************************************************)
(* Paths.  A path is a record: abs (absolute or relative), comps (its      *)
(* components) and sfx, the list of ".backup.<millis>" suffixes carried by *)
(* its last component.                                                     *)
(***************************************************************************)
P(abs, comps) == [abs |-> abs, comps |-> comps, sfx |-> <<>>]

NoPath == P(FALSE, <<>>)

\* process.env.HOME
getHomeDir == P(TRUE, <<"home", "u">>)

\* resolve(getRepoDir(), "config")
getConfigDir == P(TRUE, <<"home", "u", "dotfiles", "config">>)

Front(s) == SubSeq(s, 1, Len(s) - 1)

Last(s) == s[Len(s)]

RECURSIVE NormalizeComps(_, _)
\* node:path resolve(): "." is dropped, ".." removes the previous component
NormalizeComps(acc, rest) ==
  IF rest = <<>> THEN acc
  ELSE LET c == Head(rest) IN
       IF c = "." THEN NormalizeComps(acc, Tail(rest))
       ELSE IF c = ".." THEN
              NormalizeComps(IF acc = <<>> THEN acc ELSE Front(acc), Tail(rest))
       ELSE NormalizeComps(Append(acc, c), Tail(rest))

\* node:path resolve(base, p) for an absolute base
resolve(base, p) ==
  [abs |-> TRUE,
   comps |-> NormalizeComps(IF p.abs THEN <<>> ELSE base.comps, p.comps),
   sfx |-> p.sfx]

\* node:path dirname() of a resolved path
dirname(p) == [abs |-> p.abs, comps |-> Front(p.comps), sfx |-> <<>>]

\* resolveConfigPath(relativePath)
resolveConfigPath(rel) == resolve(getConfigDir, rel)

IsPrefix(s, t) == Len(s) <= Len(t) /\ SubSeq(t, 1, Len(s)) = s

\* validatePathWithinBase: TRUE when it does not throw
validatePathWithinBase(resolvedPath, allowedBase) ==
  \/ resolvedPath = allowedBase
  \/ /\ IsPrefix(allowedBase.comps, resolvedPath.comps)
     /\ Len(resolvedPath.comps) > Len(allowedBase.comps)

\* `${filePath}.backup.${timestamp}`
BackupName(filePath, timestamp) == [filePath EXCEPT !.sfx = Append(@, timestamp)]

\* BACKUP_PATTERN = /^(.+)\.backup\.(\d+)$/ applied to the basename
MatchesBackupPattern(p) == p.sfx # <<>>

\* match[1]: the name before the last ".backup.<digits>"
OriginalOf(p) == [p EXCEPT !.sfx = Front(@)]

\* parseInt(match[2], 10)
TimestampOf(p) == Last(p.sfx)

(***************************************************************************)
(* The filesystem: a function from the paths that exist to their nodes.    *)
(***************************************************************************)
FileNode(c) == [kind |-> "file", content |-> c, dest |-> NoPath]

DirNode(c) == [kind |-> "dir", content |-> c, dest |-> NoPath]

LinkNode(d) == [kind |-> "link", content |-> "", dest |-> d]

\* no node: the path does not exist
Absent == [kind |-> "absent", content |-> "", dest |-> NoPath]

\* the empty filesystem
EmptyFs == [q \in {} |-> Absent]

\* lstat(path) succeeds
fileOrLinkExists(fs, path) == path \in DOMAIN fs

Remove(fs, path) == [q \in DOMAIN fs \ {path} |-> fs[q]]

Put(fs, path, node) == [q \in DOMAIN fs \cup {path} |-> IF q = path THEN node ELSE fs[q]]

\* unlink(2): removes a non-directory; fails on a directory or a missing path
UnlinkOk(fs, path) == path \in DOMAIN fs /\ fs[path].kind # "dir"

\* rename(2): a directory replaces only nothing (directories of the model are
\* never empty); a non-directory replaces anything but a directory
RenameOk(fs, old, new) ==
  /\ old \in DOMAIN fs
  /\ new \in DOMAIN fs =>
       /\ fs[new].kind # "dir"
       /\ fs[old].kind # "dir"

Rename(fs, old, new) ==
  IF old = new THEN fs
  ELSE [q \in (DOMAIN fs \ {old}) \cup {new} |-> IF q = new THEN fs[old] ELSE fs[q]]

\* the directories mkdir(dir, {recursive: true}) has to look at: dir and its
\* ancestors below the home directory
Ancestors(dir) ==
  { P(TRUE, SubSeq(dir.comps, 1, n)) : n \in (Len(getHomeDir.comps) + 1)..Len(dir.comps) }

MkdirOk(fs, dir) == \A a \in Ancestors(dir) : a \in DOMAIN fs => fs[a].kind = "dir"

Mkdir(fs, dir) ==
  [q \in DOMAIN fs \cup Ancestors(dir) |-> IF q \in DOMAIN fs THEN fs[q] ELSE DirNode("")]

\* symlink(2) fails when the path exists or its parent is not a directory
SymlinkOk(fs, target) ==
  /\ target \notin DOMAIN fs
  /\ \/ ~IsPrefix(getHomeDir.comps, dirname(target).comps)
     \/ dirname(target) = getHomeDir
     \/ (dirname(target) \in DOMAIN fs /\ fs[dirname(target)].kind = "dir")

(***************************************************************************)
(* The machine and the configuration.                                      *)
(***************************************************************************)
\* getPlatform()
getPlatform == "linux"

\* getHostname(), as a sequence of characters
getHostname == <<"w", "k", "1">>

RECURSIVE matchGlob(_, _)
\* matchGlob(value, pattern): "*" is any run of characters, "?" exactly one,
\* every other character stands for itself; the whole value must match
matchGlob(value, pattern) ==
  IF pattern = <<>> THEN value = <<>>
  ELSE IF Head(pattern) = "*" THEN
         \/ matchGlob(value, Tail(pattern))
         \/ (value # <<>> /\ matchGlob(Tail(value), pattern))
  ELSE IF Head(pattern) = "?" THEN
         value # <<>> /\ matchGlob(Tail(value), Tail(pattern))
  ELSE /\ value # <<>>
       /\ Head(value) = Head(pattern)
       /\ matchGlob(Tail(value), Tail(pattern))

\* SymlinkCondition; an absent field is "" / <<>> (both falsy in the code)
NoCondition == [platform |-> "", hostname |-> <<>>]

\* a shouldCreateSymlink that looks at the hostname before the platform
shouldCreateSymlinkHostFirst(condition) ==
  IF condition = NoCondition THEN [create |-> TRUE, reason |-> ""]
  ELSE IF condition.hostname # <<>> /\ ~matchGlob(getHostname, condition.hostname)
       THEN [create |-> FALSE, reason |-> "hostname"]
  ELSE IF condition.platform # "" /\ getPlatform # condition.platform
       THEN [create |-> FALSE, reason |-> "platform"]
  ELSE [create |-> TRUE, reason |-> ""]

\* shouldCreateSymlink(condition): create and reason
shouldCreateSymlink(condition) ==
  IF condition = NoCondition THEN [create |-> TRUE, reason |-> ""]
  ELSE IF condition.platform # "" /\ getPlatform # condition.platform
       THEN [create |-> FALSE, reason |-> "platform"]
  ELSE IF condition.hostname # <<>> /\ ~matchGlob(getHostname, condition.hostname)
       THEN [create |-> FALSE, reason |-> "hostname"]
  ELSE [create |-> TRUE, reason |-> ""]

\* one entry of config.symlinks: the key (source, relative to config/) and the
\* normalized SymlinkTarget (targetPath relative to the home directory, when)
Entry(source, targetPath, when) ==
  [source |-> P(FALSE, source), targetPath |-> P(FALSE, targetPath), when |-> when]

\* the entries configurations are built from
EntryUniverse ==
  { Entry(<<"shell", "zshrc">>, <<".zshrc">>, NoCondition),
    Entry(<<"starship.toml">>, <<".config", "starship.toml">>, NoCondition),
    Entry(<<"starship.toml">>, <<".zshrc">>, NoCondition),
    Entry(<<"passwd">>, <<"..", "..", "etc", "passwd">>, NoCondition),
    Entry(<<"gone">>, <<".zshrc">>, NoCondition),
    Entry(<<"shell", "zshrc">>, <<".zshrc">>, [platform |-> "darwin", hostname |-> <<>>]) }

\* the files that exist under config/ in the repository
RepoFiles ==
  { resolveConfigPath(P(FALSE, <<"shell", "zshrc">>)),
    resolveConfigPath(P(FALSE, <<"starship.toml">>)),
    resolveConfigPath(P(FALSE, <<"passwd">>)) }

\* Object.entries(symlinks): ordered, keys (sources) pairwise distinct
Configs ==
  { c \in UNION { [1..n -> EntryUniverse] : n \in 1..MaxSpecs } :
      \A i, j \in DOMAIN c : i # j => c[i].source # c[j].source }

TargetOf(e) == resolve(getHomeDir, e.targetPath)

SourceOf(e) == resolveConfigPath(e.source)

(***************************************************************************)
(* Classification of a target (LinkClassifier).                            *)
(***************************************************************************)
\* stat(path): follows a symbolic link once to a repository file or to a
\* non-link node
StatOk(fs, path) ==
  \/ path \in RepoFiles
  \/ /\ path \in DOMAIN fs
     /\ \/ fs[path].kind # "link"
        \/ LET d == resolve(dirname(path), fs[path].dest) IN
             \/ d \in RepoFiles
             \/ (d \in DOMAIN fs /\ fs[d].kind # "link")

\* an isSymlinkTo that compares only the stored value of the link
isSymlinkToLiteral(fs, linkPath, expectedTarget) ==
  /\ linkPath \in DOMAIN fs
  /\ fs[linkPath].kind = "link"
  /\ fs[linkPath].dest = expectedTarget

\* isSymlinkTo(linkPath, expectedTarget)
isSymlinkTo(fs, linkPath, expectedTarget) ==
  /\ linkPath \in DOMAIN fs
  /\ fs[linkPath].kind = "link"
  /\ LET actualTarget == fs[linkPath].dest
         resolvedActual == resolve(dirname(linkPath), actualTarget)
     IN resolvedActual = expectedTarget \/ actualTarget = expectedTarget

(***************************************************************************)
(* createSymlink and finishSymlink (src/core/symlinks.ts).                 *)
(***************************************************************************)
\* SymlinkState; NoPath stands for an absent backupPath
SymlinkState(source, target, status, backupPath) ==
  [source |-> source, target |-> target, status |-> status, backupPath |-> backupPath]

\* ConflictChoice; NoChoice stands for undefined
Choice(action, applyToAll) == [action |-> action, applyToAll |-> applyToAll]

NoChoice == Choice("none", FALSE)

\* InstallOptions
AllOptions == [dryRun : BOOLEAN, force : BOOLEAN, noInteractive : BOOLEAN]

\* what one call of createSymlink yields: the filesystem after it, the state,
\* nextChoice, and error ("" when it returns, else what it throws)
Outcome(fs, state, nextChoice, error) ==
  [fs |-> fs, state |-> state, nextChoice |-> nextChoice, error |-> error]

\* a createBackup that loses the file it moves aside
createBackupLost(fs, filePath, timestamp) ==
  [ok |-> filePath \in DOMAIN fs, fs |-> Remove(fs, filePath),
   backupPath |-> BackupName(filePath, timestamp)]

\* createBackup(filePath) at Date.now() = timestamp
createBackup(fs, filePath, timestamp) ==
  LET backupPath == BackupName(filePath, timestamp) IN
    IF RenameOk(fs, filePath, backupPath)
    THEN [ok |-> TRUE, fs |-> Rename(fs, filePath, backupPath), backupPath |-> backupPath]
    ELSE [ok |-> FALSE, fs |-> fs, backupPath |-> backupPath]

\* a finishSymlink that does not look at options.dryRun
finishSymlinkWet(fs, state, options, nextChoice) ==
  LET targetDir == dirname(state.target)
      done == [state EXCEPT !.status = IF @ = "backup" THEN "backup" ELSE "linked"]
  IN IF ~MkdirOk(fs, targetDir) THEN Outcome(fs, state, NoChoice, "fs")
     ELSE LET made == Mkdir(fs, targetDir) IN
          IF ~SymlinkOk(made, state.target) THEN Outcome(made, state, NoChoice, "fs")
          ELSE Outcome(Put(made, state.target, LinkNode(state.source)), done, nextChoice, "")

\* finishSymlink(source, target, state, options)
finishSymlink(fs, state, options, nextChoice) ==
  LET targetDir == dirname(state.target)
      done == [state EXCEPT !.status = IF @ = "backup" THEN "backup" ELSE "linked"]
  IN IF options.dryRun THEN Outcome(fs, done, nextChoice, "")
     ELSE IF ~MkdirOk(fs, targetDir) THEN Outcome(fs, state, NoChoice, "fs")
     ELSE LET made == Mkdir(fs, targetDir) IN
          IF ~SymlinkOk(made, state.target) THEN Outcome(made, state, NoChoice, "fs")
          ELSE Outcome(Put(made, state.target, LinkNode(state.source)), done, nextChoice, "")

\* a HandleChoice whose abort deletes the target before it throws
HandleChoiceDirtyAbort(fs, state, options, choice, timestamp) ==
  LET next == IF choice.applyToAll THEN choice ELSE NoChoice IN
  CASE choice.action = "abort" ->
         Outcome(IF options.dryRun THEN fs ELSE Remove(fs, state.target), state, NoChoice, "abort")
    [] choice.action = "skip" ->
         Outcome(fs, [state EXCEPT !.status = "conflict"], next, "")
    [] choice.action = "overwrite" ->
         IF options.dryRun THEN finishSymlink(fs, state, options, next)
         ELSE IF ~UnlinkOk(fs, state.target) THEN Outcome(fs, state, NoChoice, "fs")
         ELSE finishSymlink(Remove(fs, state.target), state, options, next)
    [] choice.action = "backup" ->
         IF options.dryRun
         THEN finishSymlink(fs, [state EXCEPT !.status = "backup"], options, next)
         ELSE LET b == createBackup(fs, state.target, timestamp) IN
              IF ~b.ok THEN Outcome(fs, state, NoChoice, "fs")
              ELSE finishSymlink(b.fs,
                                 [state EXCEPT !.status = "backup", !.backupPath = b.backupPath],
                                 options, next)

\* createSymlink from "Handle the choice" on: the switch over choice.action
HandleChoice(fs, state, options, choice, timestamp) ==
  LET next == IF choice.applyToAll THEN choice ELSE NoChoice IN
  CASE choice.action = "abort" -> Outcome(fs, state, NoChoice, "abort")
    [] choice.action = "skip" ->
         Outcome(fs, [state EXCEPT !.status = "conflict"], next, "")
    [] choice.action = "overwrite" ->
         IF options.dryRun THEN finishSymlink(fs, state, options, next)
         ELSE IF ~UnlinkOk(fs, state.target) THEN Outcome(fs, state, NoChoice, "fs")
         ELSE finishSymlink(Remove(fs, state.target), state, options, next)
    [] choice.action = "backup" ->
         IF options.dryRun
         THEN finishSymlink(fs, [state EXCEPT !.status = "backup"], options, next)
         ELSE LET b == createBackup(fs, state.target, timestamp) IN
              IF ~b.ok THEN Outcome(fs, state, NoChoice, "fs")
              ELSE finishSymlink(b.fs,
                                 [state EXCEPT !.status = "backup", !.backupPath = b.backupPath],
                                 options, next)

\* a Decide that looks at options.force before the pending choice
DecideForceFirst(fs, source, target, options, isInteractive, pendingChoice) ==
  IF ~StatOk(fs, source) THEN [kind |-> "source-missing", choice |-> NoChoice]
  ELSE IF ~fileOrLinkExists(fs, target) THEN [kind |-> "free", choice |-> NoChoice]
  ELSE IF isSymlinkTo(fs, target, source) THEN [kind |-> "linked", choice |-> NoChoice]
  ELSE IF options.force THEN [kind |-> "choice", choice |-> Choice("backup", FALSE)]
  ELSE IF pendingChoice # NoChoice THEN [kind |-> "choice", choice |-> pendingChoice]
  ELSE IF options.noInteractive \/ ~isInteractive
       THEN [kind |-> "conflict", choice |-> NoChoice]
  ELSE [kind |-> "prompt", choice |-> NoChoice]

\* a Decide that does not stat the source
DecideNoStat(fs, source, target, options, isInteractive, pendingChoice) ==
  IF ~fileOrLinkExists(fs, target) THEN [kind |-> "free", choice |-> NoChoice]
  ELSE IF isSymlinkTo(fs, target, source) THEN [kind |-> "linked", choice |-> NoChoice]
  ELSE IF pendingChoice # NoChoice THEN [kind |-> "choice", choice |-> pendingChoice]
  ELSE IF options.force THEN [kind |-> "choice", choice |-> Choice("backup", FALSE)]
  ELSE IF options.noInteractive \/ ~isInteractive
       THEN [kind |-> "conflict", choice |-> NoChoice]
  ELSE [kind |-> "prompt", choice |-> NoChoice]

\* createSymlink up to the decision: what the entry needs
\*   "source-missing", "linked" (already linked), "free" (target absent),
\*   "conflict" (left alone), "prompt" (ask the operator) or "choice"
Decide(fs, source, target, options, isInteractive, pendingChoice) ==
  IF ~StatOk(fs, source) THEN [kind |-> "source-missing", choice |-> NoChoice]
  ELSE IF ~fileOrLinkExists(fs, target) THEN [kind |-> "free", choice |-> NoChoice]
  ELSE IF isSymlinkTo(fs, target, source) THEN [kind |-> "linked", choice |-> NoChoice]
  ELSE IF pendingChoice # NoChoice THEN [kind |-> "choice", choice |-> pendingChoice]
  ELSE IF options.force THEN [kind |-> "choice", choice |-> Choice("backup", FALSE)]
  ELSE IF options.noInteractive \/ ~isInteractive
       THEN [kind |-> "conflict", choice |-> NoChoice]
  ELSE [kind |-> "prompt", choice |-> NoChoice]

\* createSymlink(source, target, options, pendingChoice) when no prompt is needed
createSymlink(fs, source, target, options, isInteractive, pendingChoice, timestamp) ==
  LET state == SymlinkState(source, target, "missing", NoPath)
      d == Decide(fs, source, target, options, isInteractive, pendingChoice)
  IN CASE d.kind = "source-missing" ->
            Outcome(fs, [state EXCEPT !.status = "source-missing"], NoChoice, "")
       [] d.kind = "linked" -> Outcome(fs, [state EXCEPT !.status = "linked"], NoChoice, "")
       [] d.kind = "conflict" -> Outcome(fs, [state EXCEPT !.status = "conflict"], NoChoice, "")
       [] d.kind = "free" -> finishSymlink(fs, state, options, NoChoice)
       [] d.kind = "choice" -> HandleChoice(fs, state, options, d.choice, timestamp)

(***************************************************************************)
(* The prompt (src/core/prompt.ts).                                        *)
(***************************************************************************)
\* the keys the operator may press ("x" stands for any other key)
Keys == {"s", "b", "o", "d", "a", "S", "B", "x"}

\* String.prototype.toLowerCase on one key
toLowerCase(k) == IF k = "S" THEN "s" ELSE IF k = "B" THEN "b" ELSE k

\* readChar(): the character handed to promptConflict for a key press
readChar(key) == toLowerCase(key)

\* promptConflict: the switch over char; NoChoice means the loop goes on
promptConflict(char) ==
  CASE char = "s" -> Choice("skip", FALSE)
    [] char = "b" -> Choice("backup", FALSE)
    [] char = "o" -> Choice("overwrite", FALSE)
    [] char = "a" -> Choice("abort", FALSE)
    [] char = "S" -> Choice("skip", TRUE)
    [] char = "B" -> Choice("backup", TRUE)
    [] OTHER -> NoChoice

(***************************************************************************)
(* Run state, backups and rollback (src/core/backup.ts).                   *)
(***************************************************************************)
\* LastRunState as stored in ~/.dotfiles-last-run.json; NoRun: no such file
NoRun == [exists |-> FALSE, timestamp |-> 0, command |-> "", backups |-> <<>>, symlinks |-> <<>>]

RECURSIVE MapStates(_, _)
\* states.filter(keep).map(f), for the two uses below
MapStates(states, kind) ==
  IF states = <<>> THEN <<>>
  ELSE LET s == Head(states)
           rest == MapStates(Tail(states), kind)
       IN IF kind = "linked" /\ s.status = "linked"
            THEN <<[source |-> s.source, target |-> s.target]>> \o rest
          ELSE IF kind = "backup" /\ s.backupPath # NoPath
            THEN <<[original |-> s.target, backup |-> s.backupPath]>> \o rest
          ELSE rest

RECURSIVE statesToEntriesAll(_)
\* a statesToEntries that keeps every entry a link was made for
statesToEntriesAll(states) ==
  IF states = <<>> THEN <<>>
  ELSE LET s == Head(states) IN
       (IF s.status \in {"linked", "backup"}
          THEN <<[source |-> s.source, target |-> s.target]>> ELSE <<>>)
         \o statesToEntriesAll(Tail(states))

\* statesToEntries(states)
statesToEntries(states) == MapStates(states, "linked")

\* linkCommand: "Collect backup info" (the entries' timestamp is added on save)
CollectBackups(states) == MapStates(states, "backup")

RECURSIVE RemoveRecorded(_, _)
\* rollback: unlink(entry.target) for every recorded symlink, failures skipped
RemoveRecorded(fs, symlinks) ==
  IF symlinks = <<>> THEN fs
  ELSE LET t == Head(symlinks).target IN
       RemoveRecorded(IF UnlinkOk(fs, t) THEN Remove(fs, t) ELSE fs, Tail(symlinks))

\* a rollback that restores no backup
RestoreNothing(fs, backups) == fs

RECURSIVE RestoreRecordedStop(_, _)
\* a rollback whose restoring stops at the first backup it cannot restore
RestoreRecordedStop(fs, backups) ==
  IF backups = <<>> THEN fs
  ELSE LET b == Head(backups) IN
       IF RenameOk(fs, b.backup, b.original)
         THEN RestoreRecordedStop(Rename(fs, b.backup, b.original), Tail(backups))
         ELSE fs

RECURSIVE RestoreRecorded(_, _)
\* rollback: rename(backup.backup, backup.original) for every recorded backup,
\* failures reported and skipped
RestoreRecorded(fs, backups) ==
  IF backups = <<>> THEN fs
  ELSE LET b == Head(backups) IN
       RestoreRecorded(IF RenameOk(fs, b.backup, b.original)
                         THEN Rename(fs, b.backup, b.original) ELSE fs,
                       Tail(backups))

\* rollback(options): the filesystem and the run state after it, and its result
rollback(fs, lastRun, options) ==
  IF ~lastRun.exists
  THEN [ok |-> FALSE, fs |-> fs, lastRun |-> lastRun, msg |-> "No previous run state"]
  ELSE IF options.dryRun
  THEN [ok |-> TRUE, fs |-> fs, lastRun |-> lastRun, msg |-> "Rollback complete"]
  ELSE [ok |-> TRUE,
        fs |-> RestoreRecorded(RemoveRecorded(fs, lastRun.symlinks), lastRun.backups),
        lastRun |-> NoRun,
        msg |-> "Rollback complete"]

\* a restoreBackup that puts the backup's content back but keeps the backup
restoreBackupKeep(fs, backupPath, options) ==
  IF backupPath \in DOMAIN fs /\ MatchesBackupPattern(backupPath)
  THEN [ok |-> TRUE, fs |-> Put(fs, OriginalOf(backupPath), fs[backupPath]),
        error |-> "", msg |-> "Restored"]
  ELSE [ok |-> FALSE, fs |-> fs, error |-> "", msg |-> "Backup file not found"]

\* restoreBackup(backupPath, options); error is what it throws ("" if nothing)
restoreBackup(fs, backupPath, options) ==
  LET expandedPath == resolve(getHomeDir, backupPath)
      originalPath == OriginalOf(expandedPath)
  IN IF ~MatchesBackupPattern(expandedPath)
       THEN [ok |-> FALSE, fs |-> fs, error |-> "", msg |-> "Not a valid backup file"]
     ELSE IF ~StatOk(fs, expandedPath)
       THEN [ok |-> FALSE, fs |-> fs, error |-> "", msg |-> "Backup file not found"]
     ELSE IF options.dryRun
       THEN [ok |-> TRUE, fs |-> fs, error |-> "", msg |-> "Would restore"]
     ELSE LET cleared == IF UnlinkOk(fs, originalPath) THEN Remove(fs, originalPath) ELSE fs IN
          IF RenameOk(cleared, expandedPath, originalPath)
            THEN [ok |-> TRUE, fs |-> Rename(cleared, expandedPath, originalPath),
                  error |-> "", msg |-> "Restored"]
            ELSE [ok |-> FALSE, fs |-> cleared, error |-> "fs", msg |-> ""]

\* findAllBackups: dirsToSearch
dirsToSearch ==
  { getHomeDir,
    resolve(getHomeDir, P(FALSE, <<".config">>)),
    resolve(getHomeDir, P(FALSE, <<".config", "starship">>)),
    resolve(getHomeDir, P(FALSE, <<".config", "ghostty">>)),
    resolve(getHomeDir, P(FALSE, <<".config", "kitty">>)),
    resolve(getHomeDir, P(FALSE, <<".claude">>)) }

\* findAllBackups(): the entries of the searched directories that match
\* BACKUP_PATTERN (their order is fixed by the ranking below)
findAllBackups(fs) ==
  { [original |-> OriginalOf(p), backup |-> p, timestamp |-> TimestampOf(p)] :
      p \in { q \in DOMAIN fs : dirname(q) \in dirsToSearch /\ MatchesBackupPattern(q) } }

\* index of a backup in its group (same original) sorted newest first
RankOf(b, backups) ==
  Cardinality({ o \in backups : o.original = b.original /\ o.timestamp > b.timestamp })

\* a cleanBackups that deletes only what is both old and beyond the count
cleanBackupsBoth(fs, config, options, time) ==
  LET backups == findAllBackups(fs)
      maxAgeMs == config.maxAge * 24 * 60 * 60 * 1000
      due == { b \in backups :
                 /\ time - b.timestamp > maxAgeMs
                 /\ RankOf(b, backups) >= config.maxCount }
      gone == IF options.dryRun THEN {} ELSE { b.backup : b \in { d \in due : UnlinkOk(fs, d.backup) } }
  IN [fs |-> [q \in DOMAIN fs \ gone |-> fs[q]], removed |-> Cardinality(gone)]

\* cleanBackups(config, options) at Date.now() = time: the files it deletes
cleanBackups(fs, config, options, time) ==
  LET backups == findAllBackups(fs)
      maxAgeMs == config.maxAge * 24 * 60 * 60 * 1000
      due == { b \in backups :
                 \/ time - b.timestamp > maxAgeMs
                 \/ RankOf(b, backups) >= config.maxCount }
      gone == IF options.dryRun THEN {} ELSE { b.backup : b \in { d \in due : UnlinkOk(fs, d.backup) } }
  IN [fs |-> [q \in DOMAIN fs \ gone |-> fs[q]], removed |-> Cardinality(gone)]

\* the retention policies (config.backup) the model draws from
Policies == { [maxAge |-> 7, maxCount |-> 1], [maxAge |-> 0, maxCount |-> 5] }

\* no config.backup in use
NoPolicy == [maxAge |-> 0, maxCount |-> 0]

(***************************************************************************)
(* removeSymlinks and getSymlinkStatus (src/core/symlinks.ts).             *)
(***************************************************************************)
RECURSIVE removeSymlinksAny(_, _, _)
\* a removeSymlinks that unlinks whatever lstat finds at the target
removeSymlinksAny(fs, symlinks, options) ==
  IF symlinks = <<>> THEN [fs |-> fs, error |-> ""]
  ELSE LET target == TargetOf(Head(symlinks)) IN
       IF ~validatePathWithinBase(target, getHomeDir) THEN [fs |-> fs, error |-> "escape"]
       ELSE IF fileOrLinkExists(fs, target) /\ ~options.dryRun
         THEN removeSymlinksAny(Remove(fs, target), Tail(symlinks), options)
       ELSE removeSymlinksAny(fs, Tail(symlinks), options)

RECURSIVE removeSymlinks(_, _, _)
\* removeSymlinks(symlinks, options): the filesystem after it and what it throws
removeSymlinks(fs, symlinks, options) ==
  IF symlinks = <<>> THEN [fs |-> fs, error |-> ""]
  ELSE LET target == TargetOf(Head(symlinks)) IN
       IF ~validatePathWithinBase(target, getHomeDir) THEN [fs |-> fs, error |-> "escape"]
       ELSE IF fileOrLinkExists(fs, target) /\ fs[target].kind = "link" /\ ~options.dryRun
         THEN removeSymlinks(Remove(fs, target), Tail(symlinks), options)
       ELSE removeSymlinks(fs, Tail(symlinks), options)

RECURSIVE getSymlinkStatus(_, _)
\* getSymlinkStatus(symlinks): the states, and what it throws
getSymlinkStatus(fs, symlinks) ==
  IF symlinks = <<>> THEN [states |-> <<>>, error |-> ""]
  ELSE LET e == Head(symlinks)
           source == SourceOf(e)
           target == TargetOf(e)
           status == IF ~shouldCreateSymlink(e.when).create THEN "missing"
                     ELSE IF ~StatOk(fs, source) THEN "source-missing"
                     ELSE IF isSymlinkTo(fs, target, source) THEN "linked"
                     ELSE IF fileOrLinkExists(fs, target) THEN "conflict"
                     ELSE "missing"
       IN IF ~validatePathWithinBase(target, getHomeDir)
            THEN [states |-> <<>>, error |-> "escape"]
          ELSE LET rest == getSymlinkStatus(fs, Tail(symlinks)) IN
               [states |-> <<SymlinkState(source, target, status, NoPath)>> \o rest.states,
                error |-> rest.error]

(***************************************************************************)
(* State.                                                                  *)
(***************************************************************************)
VARIABLES
  config,     \* config.symlinks, the ordered entries (fixed in a behaviour)
  stdinTTY,   \* process.stdin.isTTY of the session
  fs,         \* the filesystem under the home directory
  lastRun,    \* the persisted LastRunState
  now,        \* Date.now()
  run,        \* the command in progress, or the last one once it has ended
  prev,       \* the last command before it that changed anything
  budget      \* number of commands the operator still issues

vars == <<config, stdinTTY, fs, lastRun, now, run, prev, budget>>

NoOptions == [dryRun |-> FALSE, force |-> FALSE, noInteractive |-> FALSE]

\* a command record: cmd, its position pc ("loop", "prompt", "done", "failed"),
\* its options, the config.backup it was given (policy), the createSymlinks
\* loop (index i, states, pendingChoice, char last read by the prompt), its
\* outcome (error thrown, exit status, ok: the
\* value returned, msg, removed) and, for the properties, what was the case
\* before: fs0 / lr0, the filesystem and run state when the command started;
\* for the entry handled last, the filesystem (before) and pendingChoice
\* (pendingAt) it met, whether the operator was asked, and the key pressed
NoCommand ==
  [cmd |-> "none", pc |-> "done", options |-> NoOptions, i |-> 1, states |-> <<>>,
   pendingChoice |-> NoChoice, char |-> "", error |-> "", exit |-> 0, ok |-> TRUE,
   msg |-> "", removed |-> 0, arg |-> NoPath, fs0 |-> EmptyFs, lr0 |-> NoRun,
   before |-> EmptyFs, pendingAt |-> NoChoice, asked |-> FALSE, key |-> "",
   policy |-> NoPolicy]

\* isInteractive()
isInteractive == stdinTTY

\* a symlink that points somewhere else (to a path that does not exist)
Elsewhere == P(TRUE, <<"home", "u", "old", "zshrc">>)

\* what may occupy a target before the first command
Occupants(cfg, target) ==
  { FileNode("old"), DirNode("tree"), LinkNode(Elsewhere) }
    \cup { LinkNode(SourceOf(cfg[i])) : i \in { j \in DOMAIN cfg : TargetOf(cfg[j]) = target } }

\* the targets of a configuration that lie in the home directory
HomeTargets(cfg) ==
  { TargetOf(cfg[i]) : i \in { j \in DOMAIN cfg : validatePathWithinBase(TargetOf(cfg[j]), getHomeDir) } }

\* the filesystems a behaviour may start from: each target absent or occupied,
\* with the directories above the occupied ones
InitialFilesystems(cfg) ==
  { LET present == { t \in HomeTargets(cfg) : occ[t] # Absent }
        dirs == UNION { Ancestors(dirname(t)) : t \in present }
    IN [q \in present \cup dirs |-> IF q \in present THEN occ[q] ELSE DirNode("")] :
      occ \in { f \in [HomeTargets(cfg) -> {Absent} \cup UNION { Occupants(cfg, t) : t \in HomeTargets(cfg) }] :
                  \A t \in HomeTargets(cfg) : f[t] = Absent \/ f[t] \in Occupants(cfg, t) } }

Init ==
  /\ config \in Configs
  /\ stdinTTY \in BOOLEAN
  /\ fs \in InitialFilesystems(config)
  /\ lastRun = NoRun
  /\ now = 1
  /\ run = NoCommand
  /\ prev = NoCommand
  /\ budget = MaxCmds

\* a new process may start: the last one has ended (one invocation at a time)
Idle == run.pc \in {"done", "failed"} /\ budget > 0

\* the record of a command that starts now
Started(cmd, options) ==
  [NoCommand EXCEPT !.cmd = cmd, !.pc = "loop", !.options = options,
                    !.fs0 = fs, !.lr0 = lastRun]

\* the command that ends becomes prev if it changed the filesystem or the run
\* state: prev is the last command that changed anything
Ended == IF fs = run.fs0 /\ lastRun = run.lr0 THEN prev ELSE run

\* main(): an error thrown by the command is caught and the process exits 1
Thrown(r, error) == [r EXCEPT !.pc = "failed", !.error = error, !.exit = 1, !.ok = FALSE]

(***************************************************************************)
(* paw link: linkCommand -> createSymlinks -> saveLastRunState.            *)
(***************************************************************************)
StartLink(options) ==
  /\ Idle
  /\ prev' = Ended
  /\ run' = Started("link", options)
  /\ budget' = budget - 1
  /\ now' = now + 1
  /\ UNCHANGED <<config, stdinTTY, fs, lastRun>>

\* a createSymlinks that takes nextChoice as pendingChoice even when undefined
AfterEntryClears(o, key, reason) ==
  /\ fs' = o.fs
  /\ run' = LET r == [run EXCEPT !.before = fs, !.pendingAt = run.pendingChoice,
                                  !.asked = (key # ""), !.key = key, !.msg = reason,
                                  !.char = IF key # "" THEN readChar(key) ELSE @]
            IN IF o.error # "" THEN Thrown(r, o.error)
            ELSE [r EXCEPT !.i = @ + 1,
                             !.states = Append(@, o.state),
                             !.pc = "loop",
                             !.pendingChoice = o.nextChoice]

\* createSymlinks: what follows a call of createSymlink that ended with o, or
\* the skip of an entry for the reason logged
AfterEntry(o, key, reason) ==
  /\ fs' = o.fs
  /\ run' = LET r == [run EXCEPT !.before = fs, !.pendingAt = run.pendingChoice,
                                  !.asked = (key # ""), !.key = key, !.msg = reason,
                                  !.char = IF key # "" THEN readChar(key) ELSE @]
            IN IF o.error # "" THEN Thrown(r, o.error)
            ELSE [r EXCEPT !.i = @ + 1,
                             !.states = Append(@, o.state),
                             !.pc = "loop",
                             !.pendingChoice = IF o.nextChoice # NoChoice THEN o.nextChoice ELSE @]

\* Date.now() read by createBackup: the clock may have moved on since it was
\* last read
Timestamps(options, choice) ==
  IF choice.action = "backup" /\ ~options.dryRun THEN {now, now + 1} ELSE {now}

\* a loop iteration that does not evaluate the entry's condition
LinkStepNoCondition ==
  /\ run.cmd = "link" /\ run.pc = "loop" /\ run.i <= Len(config)
  /\ LET e == config[run.i]
         source == SourceOf(e)
         target == TargetOf(e)
         d == Decide(fs, source, target, run.options, isInteractive, run.pendingChoice)
     IN IF ~validatePathWithinBase(target, getHomeDir)
          THEN /\ AfterEntry(Outcome(fs, SymlinkState(source, target, "missing", NoPath),
                                     NoChoice, "escape"), "", "")
               /\ UNCHANGED now
        ELSE IF d.kind = "prompt"
          THEN /\ run' = [run EXCEPT !.pc = "prompt", !.char = "", !.key = ""]
               /\ UNCHANGED <<fs, now>>
        ELSE \E ts \in Timestamps(run.options, d.choice) :
               /\ now' = ts
               /\ AfterEntry(createSymlink(fs, source, target, run.options, isInteractive,
                                           run.pendingChoice, ts), "", "")
  /\ UNCHANGED <<config, stdinTTY, lastRun, prev, budget>>

\* createSymlinks: one iteration of the loop over Object.entries(symlinks)
LinkStep ==
  /\ run.cmd = "link" /\ run.pc = "loop" /\ run.i <= Len(config)
  /\ LET e == config[run.i]
         source == SourceOf(e)
         target == TargetOf(e)
         d == Decide(fs, source, target, run.options, isInteractive, run.pendingChoice)
     IN IF ~shouldCreateSymlink(e.when).create
          THEN /\ AfterEntry(Outcome(fs, SymlinkState(source, target, "missing", NoPath),
                                          NoChoice, ""), "", shouldCreateSymlink(e.when).reason)
               /\ UNCHANGED now
        ELSE IF ~validatePathWithinBase(target, getHomeDir)
          THEN /\ AfterEntry(Outcome(fs, SymlinkState(source, target, "missing", NoPath),
                                          NoChoice, "escape"), "", "")
               /\ UNCHANGED now
        ELSE IF d.kind = "prompt"
          THEN /\ run' = [run EXCEPT !.pc = "prompt", !.char = "", !.key = ""]
               /\ UNCHANGED <<fs, now>>
        ELSE \E ts \in Timestamps(run.options, d.choice) :
               /\ now' = ts
               /\ AfterEntry(createSymlink(fs, source, target, run.options, isInteractive,
                                           run.pendingChoice, ts), "", "")
  /\ UNCHANGED <<config, stdinTTY, lastRun, prev, budget>>

\* promptConflict: the operator presses a key; "d" shows the diff and any key
\* that does not resolve asks again
PressKey(key) ==
  /\ run.cmd = "link" /\ run.pc = "prompt"
  /\ LET e == config[run.i]
         char == readChar(key)
         choice == promptConflict(char)
         state == SymlinkState(SourceOf(e), TargetOf(e), "missing", NoPath)
     IN IF choice = NoChoice
          THEN /\ run' = [run EXCEPT !.char = char, !.key = key]
               /\ UNCHANGED <<fs, now>>
        ELSE \E ts \in Timestamps(run.options, choice) :
               /\ now' = ts
               /\ AfterEntry(HandleChoice(fs, state, run.options, choice, ts), key, "")
  /\ UNCHANGED <<config, stdinTTY, lastRun, prev, budget>>

\* a linkCommand that saves the run state in a dry run too
LinkFinishAlwaysSaves ==
  /\ run.cmd = "link" /\ run.pc = "loop" /\ run.i > Len(config)
  /\ lastRun' = [exists |-> TRUE, timestamp |-> now, command |-> "link",
                 backups |-> CollectBackups(run.states),
                 symlinks |-> statesToEntries(run.states)]
  /\ run' = [run EXCEPT !.pc = "done", !.exit = 0, !.ok = TRUE]
  /\ UNCHANGED <<config, stdinTTY, fs, now, prev, budget>>

\* linkCommand after createSymlinks returned: collect the backups and save the
\* run state unless this is a dry run
LinkFinish ==
  /\ run.cmd = "link" /\ run.pc = "loop" /\ run.i > Len(config)
  /\ lastRun' = IF run.options.dryRun THEN lastRun
                ELSE [exists |-> TRUE, timestamp |-> now, command |-> "link",
                      backups |-> CollectBackups(run.states),
                      symlinks |-> statesToEntries(run.states)]
  /\ run' = [run EXCEPT !.pc = "done", !.exit = 0, !.ok = TRUE]
  /\ UNCHANGED <<config, stdinTTY, fs, now, prev, budget>>

(***************************************************************************)
(* paw unlink, paw rollback, paw backup restore / clean, paw status.       *)
(***************************************************************************)
DryRun(dry) == [NoOptions EXCEPT !.dryRun = dry]

\* unlinkCommand(options)
Unlink(options) ==
  /\ Idle
  /\ LET r == removeSymlinks(fs, config, options) IN
       /\ fs' = r.fs
       /\ run' = IF r.error # "" THEN Thrown(Started("unlink", options), r.error)
                 ELSE [Started("unlink", options) EXCEPT !.pc = "done"]
  /\ prev' = Ended
  /\ budget' = budget - 1
  /\ now' = now + 1
  /\ UNCHANGED <<config, stdinTTY, lastRun>>

\* rollbackCommand(options): the value rollback returns is dropped
Rollback(options) ==
  /\ Idle
  /\ LET r == rollback(fs, lastRun, options) IN
       /\ fs' = r.fs
       /\ lastRun' = r.lastRun
       /\ run' = [Started("rollback", options) EXCEPT !.pc = "done", !.ok = r.ok,
                                                      !.msg = r.msg, !.exit = 0]
  /\ prev' = Ended
  /\ budget' = budget - 1
  /\ now' = now + 1
  /\ UNCHANGED <<config, stdinTTY>>

\* the paths "paw backup restore" is given: the backups that exist, and a
\* configured target (not a backup name)
RestoreArgs == { p \in DOMAIN fs : MatchesBackupPattern(p) } \cup { TargetOf(config[1]) }

\* backupCommand("restore", [backupPath], options)
Restore(backupPath, options) ==
  /\ Idle
  /\ LET r == restoreBackup(fs, backupPath, options)
         c == [Started("restore", options) EXCEPT !.arg = backupPath, !.msg = r.msg]
     IN /\ fs' = r.fs
        /\ run' = IF r.error # "" THEN Thrown(c, r.error)
                  ELSE [c EXCEPT !.pc = "done", !.ok = r.ok]
  /\ prev' = Ended
  /\ budget' = budget - 1
  /\ now' = now + 1
  /\ UNCHANGED <<config, stdinTTY, lastRun>>

\* backupCommand("clean", [], options) with config.backup = policy
Clean(policy, options) ==
  /\ Idle
  /\ LET r == cleanBackups(fs, policy, options, now + 1) IN
       /\ fs' = r.fs
       /\ run' = [Started("clean", options) EXCEPT !.pc = "done", !.removed = r.removed,
                                                   !.policy = policy]
  /\ prev' = Ended
  /\ budget' = budget - 1
  /\ now' = now + 1
  /\ UNCHANGED <<config, stdinTTY, lastRun>>

\* statusCommand: getSymlinkStatus(config.symlinks)
Status ==
  /\ Idle
  /\ LET r == getSymlinkStatus(fs, config) IN
       run' = IF r.error # "" THEN Thrown(Started("status", NoOptions), r.error)
              ELSE [Started("status", NoOptions) EXCEPT !.pc = "done", !.states = r.states]
  /\ prev' = Ended
  /\ budget' = budget - 1
  /\ now' = now + 1
  /\ UNCHANGED <<config, stdinTTY, fs, lastRun>>

Next ==
  \/ \E options \in AllOptions : StartLink(options)
  \/ LinkStep
  \/ \E key \in Keys : PressKey(key)
  \/ LinkFinish
  \/ \E dry \in BOOLEAN : Unlink(DryRun(dry))
  \/ \E dry \in BOOLEAN : Rollback(DryRun(dry))
  \/ \E dry \in BOOLEAN : \E b \in RestoreArgs : Restore(b, DryRun(dry))
  \/ \E dry \in BOOLEAN : \E policy \in Policies : Clean(policy, DryRun(dry))
  \/ Status

Spec == Init /\ [][Next]_vars

(***************************************************************************)
(* createSymlinks on its own: the loop entered with any pendingChoice that *)
(* createSymlink's parameter admits (a choice that carries applyToAll), to *)
(* see how createSymlink decides a conflict.                               *)
(***************************************************************************)
PendingChoices ==
  {NoChoice} \cup { Choice(a, TRUE) : a \in {"skip", "backup", "overwrite", "abort"} }

InitSticky ==
  /\ config \in Configs
  /\ stdinTTY \in BOOLEAN
  /\ fs \in InitialFilesystems(config)
  /\ lastRun = NoRun
  /\ now = 1
  /\ prev = NoCommand
  /\ budget = 0
  /\ \E options \in AllOptions : \E pending \in PendingChoices :
       run = [NoCommand EXCEPT !.cmd = "link", !.pc = "loop", !.options = options,
                               !.pendingChoice = pending, !.fs0 = fs, !.lr0 = NoRun]

NextSticky ==
  \/ LinkStep
  \/ \E key \in Keys : PressKey(key)
  \/ LinkFinish

SpecSticky == InitSticky /\ [][NextSticky]_vars

(***************************************************************************)
(* createSymlinks over one spec with any condition: shouldCreateSymlink    *)
(* and matchGlob on every platform and every hostname pattern up to        *)
(* MaxPattern characters.                                                  *)
(***************************************************************************)
\* the characters of a hostname pattern: letters of the hostname, the two
\* wildcards, and "." which the regular expression built from the pattern
\* escapes
GlobChars == {"w", "k", "1", "*", "?", "."}

Patterns == UNION { [1..n -> GlobChars] : n \in 0..MaxPattern }

\* SymlinkCondition: platform and hostname, each given or not
Conditions == [platform : {"", "linux", "darwin"}, hostname : Patterns]

InitCondition ==
  /\ config \in { <<Entry(<<"shell", "zshrc">>, <<".zshrc">>, c)>> : c \in Conditions }
  /\ stdinTTY \in BOOLEAN
  /\ fs \in InitialFilesystems(config)
  /\ lastRun = NoRun
  /\ now = 1
  /\ prev = NoCommand
  /\ budget = 0
  /\ \E force \in BOOLEAN :
       run = [NoCommand EXCEPT !.cmd = "link", !.pc = "loop",
                               !.options = [NoOptions EXCEPT !.force = force],
                               !.fs0 = fs, !.lr0 = NoRun]

NextCondition ==
  \/ LinkStep
  \/ \E key \in Keys : PressKey(key)
  \/ LinkFinish

SpecCondition == InitCondition /\ [][NextCondition]_vars

(***************************************************************************)
(* paw backup clean on a home directory that holds backups of two files,   *)
(* MaxStamp of them from more than a day ago and MaxStamp from the last    *)
(* day, under every retention policy of up to MaxStamp backups and a day.  *)
(***************************************************************************)
\* one day, in the milliseconds of Date.now()
DayMs == 24 * 60 * 60 * 1000

\* Date.now() of the clean: the backup stamped MaxStamp is then exactly one
\* day old
CleanTime == DayMs + MaxStamp

BackupStamps == (1..MaxStamp) \cup { DayMs + s : s \in 1..MaxStamp }

\* the backup files the home directory may hold
BackupCandidates ==
  { BackupName(resolve(getHomeDir, P(FALSE, comps)), t) :
      comps \in { <<".zshrc">>, <<".config", "starship.toml">> }, t \in BackupStamps }

\* config.backup
CleanPolicies == [maxAge : {0, 1}, maxCount : 0..MaxStamp]

InitClean ==
  /\ config = <<Entry(<<"shell", "zshrc">>, <<".zshrc">>, NoCondition)>>
  /\ stdinTTY = FALSE
  /\ \E occ \in [BackupCandidates -> {Absent, FileNode("old"), DirNode("tree")}] :
       LET present == { b \in BackupCandidates : occ[b] # Absent }
           dirs == UNION { Ancestors(dirname(b)) : b \in present }
       IN fs = [q \in present \cup dirs |-> IF q \in present THEN occ[q] ELSE DirNode("")]
  /\ lastRun = NoRun
  /\ now = CleanTime - 1
  /\ run = NoCommand
  /\ prev = NoCommand
  /\ budget = 1

NextClean == \E dry \in BOOLEAN : \E policy \in CleanPolicies : Clean(policy, DryRun(dry))

SpecClean == InitClean /\ [][NextClean]_vars

(***************************************************************************)
(* Classification: paw status or paw link on a home directory whose        *)
(* targets hold any kind of occupant, symlinks with a relative value       *)
(* included.                                                               *)
(***************************************************************************)
\* the value of a symlink in directory dir that names path relative to dir
\* (both below the home directory)
RelativeTo(dir, path) ==
  LET ups == Len(dir.comps) - Len(getHomeDir.comps) IN
    P(FALSE, [n \in 1..ups |-> ".."]
               \o SubSeq(path.comps, Len(getHomeDir.comps) + 1, Len(path.comps)))

\* what may occupy a target: a file, a directory, a symlink with an absolute
\* or relative value that is dangling, names another file, or names the
\* source of a spec with that target
ClassifyOccupants(cfg, target) ==
  Occupants(cfg, target)
    \cup { LinkNode(P(FALSE, <<"old", "zshrc">>)) }
    \cup { LinkNode(RelativeTo(dirname(target), SourceOf(cfg[i]))) :
             i \in { j \in DOMAIN cfg : TargetOf(cfg[j]) = target } }

ClassifyFilesystems(cfg) ==
  { LET present == { t \in HomeTargets(cfg) : occ[t] # Absent }
        dirs == UNION { Ancestors(dirname(t)) : t \in present }
    IN [q \in present \cup dirs |-> IF q \in present THEN occ[q] ELSE DirNode("")] :
      occ \in { f \in [HomeTargets(cfg) -> {Absent} \cup UNION { ClassifyOccupants(cfg, t) : t \in HomeTargets(cfg) }] :
                  \A t \in HomeTargets(cfg) : f[t] = Absent \/ f[t] \in ClassifyOccupants(cfg, t) } }

InitClassify ==
  /\ config \in Configs
  /\ stdinTTY \in BOOLEAN
  /\ fs \in ClassifyFilesystems(config)
  /\ lastRun = NoRun
  /\ now = 1
  /\ run = NoCommand
  /\ prev = NoCommand
  /\ budget = 1

NextClassify ==
  \/ Status
  \/ \E options \in AllOptions : StartLink(options)
  \/ LinkStep
  \/ \E key \in Keys : PressKey(key)
  \/ LinkFinish

SpecClassify == InitClassify /\ [][NextClassify]_vars

(***************************************************************************)
(* paw link with a spec whose target resolves to the home directory        *)
(* itself.  The home directory is a node of the filesystem here, and the   *)
(* directory above it lets the operator rename in it (HOME below a         *)
(* temporary directory, for instance).                                     *)
(***************************************************************************)
\* a spec with target ".": resolve(homeDir, ".") is the home directory
HomeEntry == Entry(<<"passwd">>, <<".">>, NoCondition)

HomeConfigs ==
  { c \in UNION { [1..n -> { HomeEntry,
                             Entry(<<"shell", "zshrc">>, <<".zshrc">>, NoCondition),
                             Entry(<<"starship.toml">>, <<".config", "starship.toml">>, NoCondition) }] :
                    n \in 1..MaxSpecs } :
      /\ \A i, j \in DOMAIN c : i # j => c[i].source # c[j].source
      /\ \E i \in DOMAIN c : c[i] = HomeEntry }

InitHome ==
  /\ config \in HomeConfigs
  /\ stdinTTY \in BOOLEAN
  /\ fs \in { Put(f, getHomeDir, DirNode("home")) :
                f \in { g \in InitialFilesystems(config) : getHomeDir \notin DOMAIN g } }
  /\ lastRun = NoRun
  /\ now = 1
  /\ run = NoCommand
  /\ prev = NoCommand
  /\ budget = 1

NextHome ==
  \/ \E options \in AllOptions : StartLink(options)
  \/ LinkStep
  \/ \E key \in Keys : PressKey(key)
  \/ LinkFinish

SpecHome == InitHome /\ [][NextHome]_vars

(***************************************************************************)
(* paw rollback some time after a link run that linked every spec: the run *)
(* state records every target, and the targets hold whatever has been put  *)
(* there since.                                                            *)
(***************************************************************************)
\* the configurations a run can link entirely
RecordedConfigs ==
  { c \in Configs :
      \A i \in DOMAIN c :
        /\ shouldCreateSymlink(c[i].when).create
        /\ validatePathWithinBase(TargetOf(c[i]), getHomeDir)
        /\ SourceOf(c[i]) \in RepoFiles }

\* the run state saved by a link run whose states are all linked
RecordedRun(cfg) ==
  [exists |-> TRUE, timestamp |-> 1, command |-> "link", backups |-> <<>>,
   symlinks |-> [k \in DOMAIN cfg |-> [source |-> SourceOf(cfg[k]), target |-> TargetOf(cfg[k])]]]

InitRecorded ==
  /\ config \in RecordedConfigs
  /\ stdinTTY \in BOOLEAN
  /\ fs \in InitialFilesystems(config)
  /\ lastRun = RecordedRun(config)
  /\ now = 2
  /\ run = NoCommand
  /\ prev = NoCommand
  /\ budget = 1

NextRecorded == \E dry \in BOOLEAN : Rollback(DryRun(dry))

SpecRecorded == InitRecorded /\ [][NextRecorded]_vars

(***************************************************************************)
(* Properties.  A command is over when its pc is "done" or "failed"; prev  *)
(* is the last command before it that changed anything, so the filesystem  *)
(* run started from is the one prev left.                                  *)
(***************************************************************************)
\* r is a link run that was not a dry run
RealLink(r) == r.cmd = "link" /\ ~r.options.dryRun

\* the entries of the configuration that apply on this machine
Applicable(cfg) == { i \in DOMAIN cfg : shouldCreateSymlink(cfg[i].when).create }

\* C1 (path safety): no applicable spec of a link run that completes has a
\* target outside the home directory, and a link run that fails with the
\* integrity error has changed nothing in the filesystem, for no spec of the
\* run, those before the escaping one included.
C1_PathSafety ==
  run.cmd = "link" =>
    /\ run.pc = "done" =>
         \A i \in Applicable(config) : validatePathWithinBase(TargetOf(config[i]), getHomeDir)
    /\ (run.pc = "failed" /\ run.error = "escape") => fs = run.fs0

\* what the filesystem fs holds at path
NodeAt(f, path) == IF path \in DOMAIN f THEN f[path] ELSE Absent

\* the link run r handled entry k with status st, and no other entry of the
\* run has its target: what the target held when entry k was handled is what
\* it held when the run started, NodeAt(r.fs0, target)
Handled(r, k, st) ==
  /\ k \in DOMAIN r.states
  /\ r.states[k].status = st
  /\ \A j \in DOMAIN r.states : j # k => r.states[j].target # r.states[k].target

\* run is a rollback (not a dry run) that follows the completed link run prev
RolledBack == run.cmd = "rollback" /\ ~run.options.dryRun /\ RealLink(prev) /\ prev.pc = "done"

\* C2 (rollback inverse): after a link run in which E1 created a fresh link
\* (target absent) and E2 backed up an existing file and linked over it, an
\* immediate rollback leaves neither target a symlink and E2's target holds
\* the original file again; the run state is gone, so that a second rollback
\* fails with "No previous run state".
C2_RollbackInverse ==
  RolledBack =>
    \A e1, e2 \in DOMAIN prev.states :
      LET t1 == prev.states[e1].target
          t2 == prev.states[e2].target
      IN (/\ Handled(prev, e1, "linked") /\ NodeAt(prev.fs0, t1) = Absent
          /\ Handled(prev, e2, "backup") /\ NodeAt(prev.fs0, t2).kind = "file") =>
           /\ run.ok
           /\ NodeAt(fs, t1).kind # "link"
           /\ NodeAt(fs, t2) = prev.fs0[t2]
           /\ prev.states[e2].backupPath \notin DOMAIN fs
           /\ ~lastRun.exists
           /\ \A dry \in BOOLEAN :
                LET again == rollback(fs, lastRun, DryRun(dry)) IN
                  ~again.ok /\ again.msg = "No previous run state" /\ again.fs = fs

C2_Witness ==
  /\ RolledBack
  /\ \E e1, e2 \in DOMAIN prev.states :
       /\ Handled(prev, e1, "linked") /\ NodeAt(prev.fs0, prev.states[e1].target) = Absent
       /\ Handled(prev, e2, "backup") /\ prev.fs0[prev.states[e2].target] = FileNode("old")
       /\ prev.states[e2].backupPath \in DOMAIN run.fs0
       /\ run.fs0[prev.states[e2].target] = LinkNode(prev.states[e2].source)
       /\ fs[prev.states[e2].target] = FileNode("old")

\* C3 (rollback inverts exactly): the run state lists only links the run
\* created, so a rollback right after a completed link run leaves a target
\* that was the correct symlink before the run, and that the run left alone,
\* that same symlink.
C3_RollbackKeepsPriorLinks ==
  RolledBack =>
    \A k \in DOMAIN prev.states :
      LET st == prev.states[k] IN
        (Handled(prev, k, "linked") /\ NodeAt(prev.fs0, st.target) = LinkNode(st.source)) =>
          NodeAt(fs, st.target) = LinkNode(st.source)

\* C4 (missing rollback state is fatal): a rollback that finds no run state
\* reports "No previous run state", changes nothing and the command exits
\* with a non-zero status.
C4_MissingStateFatal ==
  (run.cmd = "rollback" /\ ~run.lr0.exists) =>
    /\ run.msg = "No previous run state"
    /\ fs = run.fs0
    /\ run.exit # 0

\* run is the second of two link runs (not dry runs) with the same options,
\* nothing having changed in between
SecondPass ==
  /\ RealLink(run) /\ RealLink(prev)
  /\ run.options = prev.options
  /\ prev.pc = "done"

\* the operator gives on the second pass the answers of the first: what was
\* skipped then is skipped again
SameAnswers ==
  \A k \in DOMAIN prev.states \cap DOMAIN run.states :
    prev.states[k].status = "conflict" => run.states[k].status = "conflict"

\* C5 (idempotence of apply): when createSymlinks runs twice with the same
\* specs and options and nothing changes in between, every applicable entry
\* the first pass linked is reported linked by the second pass, which takes
\* no backup and changes nothing in the filesystem.
C5_Idempotence ==
  (SecondPass /\ SameAnswers) =>
    /\ fs = run.fs0
    /\ \A k \in DOMAIN run.states :
         /\ run.states[k].status # "backup"
         /\ (k \in DOMAIN prev.states /\ prev.states[k].status \in {"linked", "backup"}) =>
              run.states[k].status = "linked"

\* C6 (dry-run purity): with dryRun set, link (createSymlinks), unlink
\* (removeSymlinks), rollback, restoreBackup and cleanBackups write nothing,
\* whatever the entries are and however a conflict is decided: the home
\* directory tree and the run state stay what they were when the command
\* started; and when createSymlinks returns it returns one state per spec.
C6_DryRunPurity ==
  run.options.dryRun =>
    /\ fs = run.fs0
    /\ lastRun = run.lr0
    /\ (run.cmd = "link" /\ run.pc = "done") =>
         /\ Len(run.states) = Len(config)
         /\ \A k \in DOMAIN config :
              /\ run.states[k].source = SourceOf(config[k])
              /\ run.states[k].target = TargetOf(config[k])

\* a dry run of link that met a conflict it would have backed up and a free
\* target it would have linked
C6_Witness ==
  /\ run.cmd = "link" /\ run.options.dryRun /\ run.pc = "done"
  /\ \E j, k \in DOMAIN run.states :
       /\ run.states[j].status = "backup"
       /\ NodeAt(fs, run.states[j].target).kind = "file"
       /\ run.states[k].status = "linked"
       /\ run.states[k].target \notin DOMAIN fs

\* createSymlinks has just returned from createSymlink for the entry k
JustHandled(k) ==
  /\ run.cmd = "link" /\ run.pc \in {"loop", "prompt", "done"}
  /\ k = Len(run.states) /\ k >= 1

\* entry k met a conflict: it applies, its source exists and its target was
\* occupied by something other than the link to its source
MetConflict(k) ==
  LET e == config[k] IN
    /\ k \in Applicable(config)
    /\ StatOk(run.before, SourceOf(e))
    /\ fileOrLinkExists(run.before, TargetOf(e))
    /\ ~isSymlinkTo(run.before, TargetOf(e), SourceOf(e))

\* C7 (forced backup outcome): in a run that is not a dry run, with force set
\* and no sticky choice pending, once an entry that met a conflict has been
\* processed its state has status backup and backupPath
\* <target>.backup.<millis now>, the displaced occupant is at backupPath and
\* the target is a symlink to the source.
C7_ForcedBackup ==
  \A k \in DOMAIN config :
    (/\ JustHandled(k) /\ MetConflict(k)
     /\ ~run.options.dryRun /\ run.options.force /\ run.pendingAt = NoChoice) =>
      LET st == run.states[k] IN
        /\ st.status = "backup"
        /\ MatchesBackupPattern(st.backupPath)
        /\ OriginalOf(st.backupPath) = st.target
        /\ TimestampOf(st.backupPath) = now
        /\ NodeAt(fs, st.backupPath) = run.before[st.target]
        /\ NodeAt(fs, st.target) = LinkNode(st.source)
        /\ ~run.asked

\* a forced run has displaced a file
C7_Witness ==
  \E k \in DOMAIN config :
    /\ JustHandled(k) /\ MetConflict(k)
    /\ ~run.options.dryRun /\ run.options.force /\ run.pendingAt = NoChoice
    /\ run.before[TargetOf(config[k])] = FileNode("old")
    /\ fs[run.states[k].backupPath] = FileNode("old")

\* run restores (not a dry run) the backup that entry k of the link run prev
\* took of a file, no other entry of prev having the same target
RestoresBackupOf(k) ==
  /\ run.cmd = "restore" /\ ~run.options.dryRun
  /\ RealLink(prev) /\ prev.pc = "done"
  /\ Handled(prev, k, "backup")
  /\ NodeAt(prev.fs0, prev.states[k].target).kind = "file"
  /\ run.arg = prev.states[k].backupPath

\* C8 (backup/restore round trip): after the backup action displaced a file
\* at a target and the link was created, restoreBackup(backupPath) removes
\* what is at the target, puts the file back there as it was, and the backup
\* path exists no more; nothing else changes.
C8_RestoreRoundTrip ==
  \A k \in DOMAIN prev.states :
    RestoresBackupOf(k) =>
      LET st == prev.states[k] IN
        /\ run.pc = "done" /\ run.ok
        /\ NodeAt(fs, st.target) = prev.fs0[st.target]
        /\ st.backupPath \notin DOMAIN fs
        /\ \A q \in (DOMAIN fs \cup DOMAIN run.fs0) \ {st.target, st.backupPath} :
             NodeAt(fs, q) = NodeAt(run.fs0, q)

C8_Witness ==
  \E k \in DOMAIN prev.states :
    /\ RestoresBackupOf(k)
    /\ run.fs0[prev.states[k].target] = LinkNode(prev.states[k].source)
    /\ run.fs0[run.arg] = FileNode("old")
    /\ fs[prev.states[k].target] = FileNode("old")

\* what the action of a choice leaves of entry k: skip leaves the conflict
\* and the disk alone, backup and overwrite link the target (unless this is a
\* dry run), backup after moving the occupant aside
Applied(k, action) ==
  LET st == run.states[k]
      wet == ~run.options.dryRun
  IN CASE action = "skip" -> st.status = "conflict" /\ fs = run.before
       [] action = "backup" ->
            /\ st.status = "backup"
            /\ wet => /\ NodeAt(fs, st.target) = LinkNode(st.source)
                      /\ NodeAt(fs, st.backupPath) = run.before[st.target]
       [] action = "overwrite" ->
            /\ st.status = "linked"
            /\ wet => /\ NodeAt(fs, st.target) = LinkNode(st.source)
                      /\ DOMAIN fs \ {st.target} = DOMAIN run.before \ {st.target}
       [] OTHER -> FALSE

\* C9 (decision sourcing): a detected conflict is decided by the pending
\* sticky choice, without a prompt, even when force is set; otherwise by
\* force, which means backup whatever noInteractive and the terminal are;
\* otherwise noInteractive or a stdin that is no terminal leave the entry in
\* status conflict, with no prompt and no change on disk; the operator is
\* asked only when none of these holds.
C9_DecisionPriority ==
  /\ \A k \in DOMAIN config :
       (JustHandled(k) /\ MetConflict(k)) =>
         IF run.pendingAt # NoChoice THEN ~run.asked /\ Applied(k, run.pendingAt.action)
         ELSE IF run.options.force THEN ~run.asked /\ Applied(k, "backup")
         ELSE IF run.options.noInteractive \/ ~isInteractive
           THEN ~run.asked /\ run.states[k].status = "conflict" /\ fs = run.before
         ELSE run.asked
  /\ (run.cmd = "link" /\ run.pc = "prompt") =>
       /\ run.pendingChoice = NoChoice
       /\ ~run.options.force /\ ~run.options.noInteractive /\ isInteractive
       /\ fileOrLinkExists(fs, TargetOf(config[run.i]))
       /\ ~isSymlinkTo(fs, TargetOf(config[run.i]), SourceOf(config[run.i]))
  /\ (run.cmd = "link" /\ run.pc = "failed" /\ run.error = "abort" /\ ~run.asked) =>
       run.pendingAt.action = "abort"

\* a pending "skip all" has left a conflict alone although force is set
C9_Witness ==
  \E k \in DOMAIN config :
    /\ JustHandled(k) /\ MetConflict(k)
    /\ run.pendingAt = Choice("skip", TRUE) /\ run.options.force /\ ~run.options.dryRun
    /\ run.states[k].status = "conflict" /\ ~run.asked
    /\ fs = run.before

\* C10 (sticky variants of the prompt): the answer S (B) resolves the
\* conflict at hand with skip (backup) carrying applyToAll, and
\* createSymlinks latches it as pendingChoice for the rest of the run.
C10_StickyLatch ==
  \A k \in DOMAIN config :
    (JustHandled(k) /\ run.asked /\ run.key \in {"S", "B"}) =>
      /\ run.states[k].status = (IF run.key = "S" THEN "conflict" ELSE "backup")
      /\ run.pendingChoice = Choice(IF run.key = "S" THEN "skip" ELSE "backup", TRUE)

\* the link run has been aborted by the decision abort
Aborted == run.cmd = "link" /\ run.pc = "failed" /\ run.error = "abort"

\* C11 (abort): when the decision for a conflict is abort, createSymlinks
\* fails at once: the aborting entry has changed nothing (its target is as
\* it was), no later spec has been looked at (the states are those of the
\* entries before it, and the run takes no further step), no run state is
\* saved, and what the earlier entries did to the filesystem stays.
C11_Abort ==
  Aborted =>
    /\ fs = run.before
    /\ NodeAt(fs, TargetOf(config[run.i])) = NodeAt(run.before, TargetOf(config[run.i]))
    /\ Len(run.states) = run.i - 1
    /\ \A k \in DOMAIN run.states :
         /\ run.states[k].target = TargetOf(config[k])
         /\ (/\ run.states[k].status \in {"linked", "backup"}
             /\ ~run.options.dryRun
             /\ \A j \in (k + 1)..Len(run.states) : TargetOf(config[j]) # TargetOf(config[k])) =>
              NodeAt(fs, run.states[k].target) = LinkNode(run.states[k].source)
    /\ lastRun = run.lr0
    /\ ~ENABLED LinkStep /\ ~ENABLED LinkFinish /\ \A key \in Keys : ~ENABLED PressKey(key)

\* the operator aborted at the second entry after the first had displaced a
\* file: the link and the backup are still there
C11_Witness ==
  /\ Aborted /\ run.asked /\ run.key = "a" /\ run.i = 2 /\ Len(run.states) = 1
  /\ run.states[1].status = "backup"
  /\ NodeAt(fs, run.states[1].backupPath) = FileNode("old")
  /\ NodeAt(fs, run.states[1].target) = LinkNode(run.states[1].source)
  /\ fs # run.fs0

\* the targets of the configuration
Targets(cfg) == { TargetOf(cfg[i]) : i \in DOMAIN cfg }

\* C12 (unlink removes only symlinks): removeSymlinks deletes a path only if
\* it is a configured target that is a symbolic link; a regular file or a
\* directory is neither deleted nor changed, nothing is created, and a target
\* that does not exist is no error.
C12_UnlinkOnlyLinks ==
  run.cmd = "unlink" =>
    /\ DOMAIN fs \subseteq DOMAIN run.fs0
    /\ \A q \in DOMAIN run.fs0 :
         /\ run.fs0[q].kind # "link" => NodeAt(fs, q) = run.fs0[q]
         /\ q \in DOMAIN fs => fs[q] = run.fs0[q]
         /\ q \notin DOMAIN fs => q \in Targets(config) /\ run.fs0[q].kind = "link"
    /\ (\A t \in Targets(config) : validatePathWithinBase(t, getHomeDir)) =>
         run.pc = "done" /\ run.error = ""

\* an unlink that met a file at one target, which stays, and removed the
\* symlink at another
C12_Witness ==
  /\ run.cmd = "unlink" /\ ~run.options.dryRun /\ run.pc = "done"
  /\ \E t1, t2 \in Targets(config) :
       /\ NodeAt(run.fs0, t1).kind \in {"file", "dir"} /\ NodeAt(fs, t1) = run.fs0[t1]
       /\ NodeAt(run.fs0, t2).kind = "link" /\ t2 \notin DOMAIN fs

\* C13 (unlink acts on applicable specs only): removeSymlinks leaves alone
\* the target of a spec whose condition does not match this machine (and
\* that no applicable spec shares), even when a symlink is there.
C13_UnlinkApplicableOnly ==
  run.cmd = "unlink" =>
    \A i \in DOMAIN config \ Applicable(config) :
      (\A j \in Applicable(config) : TargetOf(config[j]) # TargetOf(config[i])) =>
        NodeAt(fs, TargetOf(config[i])) = NodeAt(run.fs0, TargetOf(config[i]))

\* C14 (inapplicable spec in createSymlinks): a spec whose condition does not
\* apply on this machine yields a state with status missing and no backup
\* path; nothing is decided, asked, backed up or changed for it (its target
\* stays occupied or absent as it was), and the loop goes on to the next spec.
C14_InapplicableSkipped ==
  \A k \in DOMAIN config \ Applicable(config) :
    /\ (run.cmd = "link" /\ run.i = k) => run.pc = "loop"
    /\ JustHandled(k) =>
         /\ run.states[k] = SymlinkState(SourceOf(config[k]), TargetOf(config[k]), "missing", NoPath)
         /\ fs = run.before
         /\ ~run.asked
         /\ run.pendingChoice = run.pendingAt
         /\ run.msg = shouldCreateSymlink(config[k].when).reason /\ run.msg # ""
         /\ run.i = k + 1

\* an inapplicable spec with a file at its target was skipped, the file is
\* still there, and the next spec has been linked
C14_Witness ==
  /\ JustHandled(2) /\ ~run.options.dryRun
  /\ 1 \notin Applicable(config)
  /\ NodeAt(fs, TargetOf(config[1])) = FileNode("old")
  /\ run.states[1].status = "missing"
  /\ run.states[2].status = "linked"
  /\ NodeAt(fs, TargetOf(config[2])) = LinkNode(SourceOf(config[2]))

\* the pattern denotes the value: the value can be cut into one piece per
\* pattern character, any run of characters for "*", exactly one character
\* for "?", the character itself for any other; cut[i] is where piece i ends
GlobDenotes(value, pattern) ==
  \E cut \in [0..Len(pattern) -> 0..Len(value)] :
    /\ cut[0] = 0
    /\ cut[Len(pattern)] = Len(value)
    /\ \A i \in 1..Len(pattern) :
         IF pattern[i] = "*" THEN cut[i] >= cut[i - 1]
         ELSE /\ cut[i] = cut[i - 1] + 1
              /\ pattern[i] = "?" \/ value[cut[i]] = pattern[i]

\* C15 (condition evaluation): shouldCreateSymlink applies when no condition
\* is given; otherwise it applies iff every predicate given matches: the
\* platform equals the machine's and the whole hostname matches the glob
\* ("*" any run of characters, "?" exactly one); the platform is checked
\* first, so when both fail the reason reported is the platform one.
\* createSymlinks skips the entry, logging that reason, exactly when
\* shouldCreateSymlink does not apply.
C15_ConditionEvaluation ==
  \A k \in DOMAIN config :
    LET c == config[k].when
        r == shouldCreateSymlink(c)
        platformOk == c.platform = "" \/ c.platform = getPlatform
        hostnameOk == c.hostname = <<>> \/ GlobDenotes(getHostname, c.hostname)
    IN /\ c = NoCondition => r.create
       /\ r.create <=> (platformOk /\ hostnameOk)
       /\ ~platformOk => r.reason = "platform"
       /\ (platformOk /\ ~hostnameOk) => r.reason = "hostname"
       /\ r.create => r.reason = ""
       /\ JustHandled(k) =>
            /\ run.msg = r.reason
            /\ ~r.create => run.states[k].status = "missing" /\ fs = run.before

\* a spec whose platform and hostname both fail was skipped for the platform
C15_Witness ==
  /\ JustHandled(1)
  /\ config[1].when.platform = "darwin"
  /\ config[1].when.hostname = <<"w", "?">>
  /\ ~GlobDenotes(getHostname, config[1].when.hostname)
  /\ run.msg = "platform"
  /\ run.states[1].status = "missing"

\* the spec e with its condition dropped, on a filesystem without its target
\* (the source is a file of the repository): a genuinely absent link
GenuinelyAbsent(f, e) ==
  getSymlinkStatus(IF TargetOf(e) \in DOMAIN f THEN Remove(f, TargetOf(e)) ELSE f,
                   <<[e EXCEPT !.when = NoCondition]>>).states[1]

\* C16 (inapplicable shown apart): the state getSymlinkStatus returns for a
\* spec whose condition does not apply differs from the state it returns for
\* an applicable spec whose source exists and whose target is absent.
C16_InapplicableDistinct ==
  (run.cmd = "status" /\ run.pc = "done") =>
    \A k \in DOMAIN config \ Applicable(config) :
      StatOk(fs, SourceOf(config[k])) =>
        run.states[k] # GenuinelyAbsent(fs, config[k])

\* a clean that deleted for real has ended
Cleaned == run.cmd = "clean" /\ run.pc = "done" /\ ~run.options.dryRun

\* the backups the clean found, and those of them unlink(2) refuses
FoundBackups == findAllBackups(run.fs0)

\* position of backup b in its group (the found backups of the same original)
\* ordered newest first
GroupRank(b) ==
  Cardinality({ o \in FoundBackups : o.original = b.original /\ o.timestamp > b.timestamp })

\* the clean ran at Date.now() = now: b is older than maxAge days
TooOld(b) == now - b.timestamp > run.policy.maxAge * DayMs

\* C17 (retention pruning): in a non-dry-run cleanBackups where no unlink
\* fails, a found backup is deleted iff its age exceeds maxAge days or its
\* rank in its group (same original, newest first) is >= maxCount; nothing
\* else changes; afterwards every original keeps at most maxCount backups,
\* all within maxAge, and they are the newest of its group; the count
\* returned is the number of files deleted.
C17_RetentionPruning ==
  (Cleaned /\ \A b \in FoundBackups : UnlinkOk(run.fs0, b.backup)) =>
    LET kept == { b \in FoundBackups : b.backup \in DOMAIN fs } IN
      /\ \A b \in FoundBackups :
           b \notin kept <=> (TooOld(b) \/ GroupRank(b) >= run.policy.maxCount)
      /\ DOMAIN fs \subseteq DOMAIN run.fs0
      /\ \A q \in DOMAIN fs : fs[q] = run.fs0[q]
      /\ \A q \in DOMAIN run.fs0 \ DOMAIN fs : \E b \in FoundBackups : b.backup = q
      /\ run.removed = Cardinality(DOMAIN run.fs0 \ DOMAIN fs)
      /\ \A b \in kept :
           /\ Cardinality({ o \in kept : o.original = b.original }) <= run.policy.maxCount
           /\ ~TooOld(b)
           /\ \A o \in FoundBackups \ kept : o.original = b.original => o.timestamp < b.timestamp

\* one backup went for its age alone, one for its rank alone, one stayed
C17_Witness ==
  /\ Cleaned
  /\ \A b \in FoundBackups : UnlinkOk(run.fs0, b.backup)
  /\ \E b \in FoundBackups :
       b.backup \notin DOMAIN fs /\ TooOld(b) /\ GroupRank(b) < run.policy.maxCount
  /\ \E b \in FoundBackups :
       b.backup \notin DOMAIN fs /\ ~TooOld(b) /\ GroupRank(b) >= run.policy.maxCount
  /\ \E b \in FoundBackups : b.backup \in DOMAIN fs /\ b.timestamp = MaxStamp
  /\ run.removed >= 2

\* a rollback that found a run state and was no dry run has ended
Consumed == run.cmd = "rollback" /\ ~run.options.dryRun /\ run.lr0.exists

\* what the rollback found recorded
RecordedSymlinks == { run.lr0.symlinks[n] : n \in DOMAIN run.lr0.symlinks }

RecordedBackups == { run.lr0.backups[n] : n \in DOMAIN run.lr0.backups }

\* what path t held once the recorded symlinks had been gone through
AfterRemoval(t) ==
  IF (\E e \in RecordedSymlinks : e.target = t) /\ UnlinkOk(run.fs0, t)
  THEN Absent ELSE NodeAt(run.fs0, t)

\* rename(b.backup, b.original) could succeed at that point
Restorable(b) ==
  /\ b.backup \in DOMAIN run.fs0
  /\ AfterRemoval(b.original) # Absent =>
       AfterRemoval(b.original).kind # "dir" /\ run.fs0[b.backup].kind # "dir"

\* C18 (best-effort rollback): a non-dry-run rollback that finds a run state
\* completes and deletes the run state whatever fails; every recorded symlink
\* that can be removed is removed and every recorded backup that can be
\* restored is restored, whether or not another entry failed; an entry that
\* fails leaves its paths as they were.
C18_RollbackBestEffort ==
  Consumed =>
    /\ run.pc = "done" /\ run.ok /\ run.msg = "Rollback complete" /\ run.exit = 0
    /\ lastRun = NoRun
    /\ \A e \in RecordedSymlinks :
         (\A b \in RecordedBackups : b.original # e.target) =>
           NodeAt(fs, e.target) = AfterRemoval(e.target)
    /\ \A b \in RecordedBackups :
         (\A o \in RecordedBackups : o # b => o.original # b.original) =>
           IF Restorable(b)
           THEN /\ NodeAt(fs, b.original) = run.fs0[b.backup]
                /\ b.backup \notin DOMAIN fs
           ELSE /\ NodeAt(fs, b.original) = AfterRemoval(b.original)
                /\ NodeAt(fs, b.backup) = NodeAt(run.fs0, b.backup)

\* the first recorded backup could not be restored, the second was
C18_Witness ==
  /\ Consumed
  /\ Len(run.lr0.backups) = 2
  /\ run.lr0.backups[1].original # run.lr0.backups[2].original
  /\ ~Restorable(run.lr0.backups[1])
  /\ run.lr0.backups[1].backup \in DOMAIN fs
  /\ Restorable(run.lr0.backups[2])
  /\ NodeAt(fs, run.lr0.backups[2].original) = run.fs0[run.lr0.backups[2].backup]
  /\ lastRun = NoRun

\* a recorded symlink could not be removed (already gone), rollback completed
C18_RemovalFailed ==
  /\ Consumed
  /\ Len(run.lr0.symlinks) = 2
  /\ run.lr0.symlinks[1].target = run.lr0.symlinks[2].target
  /\ run.ok

\* this step completes a link run that is no dry run
CompletesRealLink == RealLink(run) /\ run.pc = "loop" /\ run'.pc = "done"

\* this step is a rollback that is no dry run and finds a run state
ConsumesRunState ==
  /\ run' # run /\ run'.cmd = "rollback" /\ ~run'.options.dryRun
  /\ run'.lr0 = lastRun /\ lastRun.exists

\* the persisted run state is the record of the run that has just completed
RecordOfThisRun ==
  /\ lastRun'.exists
  /\ lastRun'.command = run'.cmd
  /\ lastRun'.timestamp = now'
  /\ lastRun'.symlinks = statesToEntries(run'.states)
  /\ lastRun'.backups = CollectBackups(run'.states)

IsLinked(s) == s.status = "linked"

\* the entry's occupant was moved to a backup file
IsBackedUp(s) == s.status = "backup"

RollbackAfterAbort ==
  /\ run.cmd = "rollback" /\ ~run.options.dryRun
  /\ RealLink(prev) /\ prev.pc = "failed" /\ prev.error = "abort"
  /\ prev.states # <<>>
  /\ run.fs0 # prev.fs0

\* C21 (recovery after abort): the run state a rollback consumes after an
\* aborted run describes the links created and the backups taken by the
\* aborted run, not those of an earlier run (or none).
C21_AbortRecoverable ==
  RollbackAfterAbort =>
    /\ run.lr0.exists
    /\ run.lr0.symlinks = statesToEntries(prev.states)
    /\ run.lr0.backups = CollectBackups(prev.states)

\* entry k met no conflict: it applies, its target is inside the home
\* directory, its source exists and its target was absent
MetNoConflict(k) ==
  LET e == config[k] IN
    /\ k \in Applicable(config)
    /\ validatePathWithinBase(TargetOf(e), getHomeDir)
    /\ StatOk(run.before, SourceOf(e))
    /\ ~fileOrLinkExists(run.before, TargetOf(e))

\* a step of one createSymlinks run
SameLinkRun == run.cmd = "link" /\ run'.cmd = "link" /\ run'.fs0 = run.fs0 /\ run.pc # "done"

MenuChoice(key) ==
  CASE key = "s" -> Choice("skip", FALSE)
    [] key = "b" -> Choice("backup", FALSE)
    [] key = "o" -> Choice("overwrite", FALSE)
    [] key = "a" -> Choice("abort", FALSE)
    [] key = "S" -> Choice("skip", TRUE)
    [] key = "B" -> Choice("backup", TRUE)
    [] OTHER -> NoChoice

\* the run is at the conflict prompt
AtPrompt == run.cmd = "link" /\ run.pc = "prompt"

\* C23 (interactive loop): promptConflict returns only on a resolving key;
\* after d (show diff) or an unrecognized key the run is still at the prompt
\* for the same entry and the filesystem is as it was; a resolving key ends
\* the prompt with exactly that key's decision: the entry is handled
\* accordingly and a decision for all remaining entries becomes the pending
\* choice.
C23_InteractiveLoop ==
  /\ [](\A k \in DOMAIN config :
          (JustHandled(k) /\ run.asked /\ ~AtPrompt) =>
            /\ MenuChoice(run.key) # NoChoice
            /\ Applied(k, MenuChoice(run.key).action)
            /\ run.pendingChoice = IF MenuChoice(run.key).applyToAll
                                   THEN MenuChoice(run.key) ELSE run.pendingAt)
  /\ []((Aborted /\ run.asked) => run.key = "a")
  /\ [][AtPrompt =>
         IF MenuChoice(run'.key) = NoChoice
         THEN /\ run'.pc = "prompt"
              /\ fs' = fs
              /\ run'.states = run.states /\ run'.i = run.i
              /\ run'.pendingChoice = run.pendingChoice
         ELSE run'.pc # "prompt" /\ run'.asked]_vars

\* entry k reaches createSymlink (it applies and its target is inside the
\* home directory) and its source cannot be stat'd
SourceMissing(f, k) ==
  /\ k \in Applicable(config)
  /\ validatePathWithinBase(TargetOf(config[k]), getHomeDir)
  /\ ~StatOk(f, SourceOf(config[k]))

\* C24 (source missing): an entry whose source cannot be stat'd gets status
\* source-missing; nothing is changed at its target or anywhere else, even
\* when the target is occupied and force or a sticky choice is active; the
\* operator is not asked, nothing is thrown and the loop goes on with the
\* next spec.
C24_SourceMissing ==
  /\ \A k \in DOMAIN config :
       (JustHandled(k) /\ SourceMissing(run.before, k)) =>
         /\ run.states[k] = SymlinkState(SourceOf(config[k]), TargetOf(config[k]),
                                         "source-missing", NoPath)
         /\ fs = run.before
         /\ ~run.asked
         /\ run.pendingChoice = run.pendingAt
         /\ run.i = k + 1
  /\ (run.cmd = "link" /\ run.pc \in {"prompt", "failed"}) =>
       ~SourceMissing(fs, run.i)

\* a source-missing entry left a file at its target alone although force and
\* a pending "backup all" were active
C24_Witness ==
  /\ JustHandled(1) /\ SourceMissing(run.before, 1)
  /\ run.options.force /\ ~run.options.dryRun
  /\ run.pendingAt = Choice("backup", TRUE)
  /\ NodeAt(run.before, TargetOf(config[1])) = FileNode("old")
  /\ NodeAt(fs, TargetOf(config[1])) = FileNode("old")
  /\ run.states[1].status = "source-missing"
  /\ Len(config) = 2 /\ run.pc = "loop"

\* the class of spec e on filesystem f, by the precedence source-missing,
\* linked, conflict, missing
Classify(f, e) ==
  LET source == SourceOf(e)
      target == TargetOf(e)
  IN IF ~StatOk(f, source) THEN "source-missing"
     ELSE IF /\ target \in DOMAIN f
             /\ f[target].kind = "link"
             /\ \/ f[target].dest = source
                \/ resolve(dirname(target), f[target].dest) = source
       THEN "linked"
     ELSE IF target \in DOMAIN f THEN "conflict"
     ELSE "missing"

\* C25 (classification): the status of a spec is a total function of the
\* filesystem, with precedence source-missing, linked, conflict, missing:
\* linked iff the target is a symlink whose value is the source or resolves
\* to it from the target's directory, conflict iff the target exists in any
\* other form.  getSymlinkStatus returns it for every applicable spec, never
\* backup, and changes nothing; createSymlinks takes an entry as already
\* linked, as a conflict or as free by the same rule.
C25_Classification ==
  /\ (run.cmd = "status" /\ run.pc = "done") =>
       /\ fs = run.fs0 /\ lastRun = run.lr0
       /\ Len(run.states) = Len(config)
       /\ \A k \in DOMAIN config :
            /\ run.states[k].status \in {"source-missing", "linked", "conflict", "missing"}
            /\ run.states[k].backupPath = NoPath
            /\ k \in Applicable(config) => run.states[k].status = Classify(fs, config[k])
  /\ (run.cmd = "status" /\ run.pc = "failed") =>
       \E k \in DOMAIN config : ~validatePathWithinBase(TargetOf(config[k]), getHomeDir)
  /\ AtPrompt => Classify(fs, config[run.i]) = "conflict"
  /\ \A k \in DOMAIN config :
       (/\ JustHandled(k)
        /\ k \in Applicable(config)
        /\ validatePathWithinBase(TargetOf(config[k]), getHomeDir)) =>
         LET c == Classify(run.before, config[k])
             st == run.states[k].status
         IN /\ c = "source-missing" => st = "source-missing" /\ fs = run.before
            /\ c = "linked" => st = "linked" /\ fs = run.before /\ ~run.asked
            /\ c = "missing" => st = "linked" /\ ~run.asked
            /\ c = "conflict" =>
                 \/ st = "conflict" /\ fs = run.before
                 \/ run.asked \/ run.pendingAt # NoChoice \/ run.options.force

\* status found linked a target that holds a symlink with a relative value,
\* and conflict a dangling symlink
C25_Witness ==
  /\ run.cmd = "status" /\ run.pc = "done"
  /\ Len(config) = 2
  /\ 1 \in Applicable(config) /\ 2 \in Applicable(config)
  /\ NodeAt(fs, TargetOf(config[1])).kind = "link"
  /\ ~NodeAt(fs, TargetOf(config[1])).dest.abs
  /\ run.states[1].status = "linked"
  /\ NodeAt(fs, TargetOf(config[2])) = LinkNode(Elsewhere)
  /\ run.states[2].status = "conflict"

\* the run shows no prompt, whatever it meets
NeverAsks(options) == options.force \/ options.noInteractive \/ ~isInteractive

\* the status createSymlinks with dryRun = true returns for entry k on
\* filesystem f: a dry run changes nothing, so every entry meets f
PreviewStatus(f, k, options) ==
  IF k \notin Applicable(config) THEN "missing"
  ELSE createSymlink(f, SourceOf(config[k]), TargetOf(config[k]),
                     [options EXCEPT !.dryRun = TRUE], isInteractive, NoChoice, now).state.status

\* C26 (dry-run preview accuracy): for the same specs, the same options apart
\* from dryRun and the same initial filesystem, the statuses returned by the
\* dry run are those returned by the real run, entry by entry.
C26_DryRunAccurate ==
  /\ (run.cmd = "link" /\ run.pc = "done" /\ run.options.dryRun /\ NeverAsks(run.options)) =>
       \A k \in DOMAIN config : run.states[k].status = PreviewStatus(run.fs0, k, run.options)
  /\ (RealLink(run) /\ run.pc = "done" /\ NeverAsks(run.options)) =>
       \A k \in DOMAIN config : run.states[k].status = PreviewStatus(run.fs0, k, run.options)

\* path is a symlink that resolves to source
ResolvesTo(f, path, source) ==
  /\ path \in DOMAIN f
  /\ f[path].kind = "link"
  /\ resolve(dirname(path), f[path].dest) = source

\* C27 (post-run link invariant): when a createSymlinks that is no dry run
\* completes, the target of every returned state with status linked or
\* backup is a symlink that resolves to that state's source.
C27_PostRunLinks ==
  (RealLink(run) /\ run.pc = "done") =>
    \A k \in DOMAIN run.states :
      run.states[k].status \in {"linked", "backup"} =>
        ResolvesTo(fs, run.states[k].target, run.states[k].source)

\* C29 (backups never destroy data): the path createBackup renames the
\* occupant of a target onto does not exist before the rename, so no backup
\* written earlier is overwritten.
C29_BackupNameFresh ==
  \A k \in DOMAIN config :
    (JustHandled(k) /\ ~run.options.dryRun /\ run.states[k].status = "backup") =>
      /\ run.states[k].backupPath \notin DOMAIN run.before
      /\ \A q \in DOMAIN run.before :
           MatchesBackupPattern(q) => NodeAt(fs, q) = run.before[q]

\* path q lies strictly inside the home directory subtree
StrictlyInside(q) ==
  /\ IsPrefix(getHomeDir.comps, q.comps)
  /\ Len(q.comps) > Len(getHomeDir.comps)

\* C28 (confinement of mutations): every path a link run has renamed, deleted
\* or created lies strictly inside the home directory; the home directory
\* itself is as it was, also for a spec whose target resolves to it.
C28_Confinement ==
  run.cmd = "link" =>
    /\ \A q \in DOMAIN fs \cup DOMAIN run.fs0 :
         NodeAt(fs, q) # NodeAt(run.fs0, q) => StrictlyInside(q)
    /\ NodeAt(fs, getHomeDir) = NodeAt(run.fs0, getHomeDir)

\* C30 (rollback deletes only links): rollback removes the target of a
\* recorded symlink only if the target is still a symbolic link; what else has
\* come to be there since the recorded run (a regular file, a directory) is
\* left as it is.
C30_RollbackOnlyLinks ==
  (run.cmd = "rollback" /\ ~run.options.dryRun /\ run.lr0.exists) =>
    \A n \in DOMAIN run.lr0.symlinks :
      LET t == run.lr0.symlinks[n].target IN
        NodeAt(run.fs0, t).kind # "link" => NodeAt(fs, t) = NodeAt(run.fs0, t)

====
